---- MODULE Spec2Model ----
(***************************************************************************)
(* Model of the shortest-closed-tour finder of src/__main__.py: a Postman   *)
(* owning one Route, whose shortify() builds the waypoint list, the         *)
(* distance matrix, every candidate tour by Heap's permutation method, and  *)
(* keeps the first candidate of strictly smallest length.                   *)
(*                                                                          *)
(* Distances are floats in the program.  Here a distance is the fixed-point *)
(* number floor(sqrt(dx^2 + dy^2) * Scale), and sums of distances are sums  *)
(* of these integers; math.inf is the largest integer.  The rendering of    *)
(* the result as a string is modelled by the sequence of its fields.        *)
(***************************************************************************)
EXTENDS Integers, Sequences, FiniteSets

\* Largest number of waypoints (stops after the depot) of an input.
MaxWaypoints == 4
\* Largest number of entries of _row_route for which handle() is run again.
MaxRowRoute == 4
\* Largest number of calls of shortify on one Route.
MaxCalls == 3
\* Number of fixed-point units in one unit of distance.
Scale == 1000

\* math.inf, the initial mininal_distance.
inf == 2147483647
\* Python's None.
None == <<>>

\* The depot row of the data of the self-test.
Depot == <<0, 2, "P">>
\* The rows waypoints are drawn from: the four waypoints of the self-test
\* and one more on the segment between the depot and (5, 2).
Pool == { <<2, 5, "A">>, <<5, 2, "B">>, <<6, 6, "C">>, <<8, 3, "D">>,
          <<4, 2, "E">> }
\* Two waypoints on one line with the depot at 12 and 15 times the same
\* step, in both orders.
Collinear == { <<Depot, <<12, 14, "F">>, <<15, 17, "G">>>>,
               <<Depot, <<15, 17, "G">>, <<12, 14, "F">>>> }

\* The sequences of n different rows of the pool.
InjSeqs(n) ==
  {s \in [1..n -> Pool] : \A i, j \in 1..n : i # j => s[i] # s[j]}

\* The inputs: the depot first, then at most MaxWaypoints waypoints with
\* unique identities.
Inputs ==
  {<<Depot>> \o s : s \in UNION {InjSeqs(n) : n \in 0..MaxWaypoints}}
    \cup Collinear

\* The fields of the Route (validated, _row_route, _start_point,
\* _finish_point, _all_distances, _paths, _display) and of the Postman
\* (route); the local variables of _calculate_minimal_route
\* (mininal_distance, minimal_path, start_point, route_dist) with idx, the
\* position of its loop in _paths; pc, the position in the program; calls,
\* the number of returns of shortify; returned, the displays returned by
\* main and handle so far.
VARIABLES validated, route, _row_route, _start_point, _finish_point,
          _all_distances, _paths, _display,
          pc, idx, mininal_distance, minimal_path, start_point, route_dist,
          calls, returned

vars == <<validated, route, _row_route, _start_point, _finish_point,
          _all_distances, _paths, _display,
          pc, idx, mininal_distance, minimal_path, start_point, route_dist,
          calls, returned>>

\* Point(*row)
Point(row) == [x |-> row[1], y |-> row[2], address |-> row[3]]

RECURSIVE SqrtSearch(_, _, _)
SqrtSearch(v, lo, hi) ==
  IF lo >= hi THEN lo
  ELSE LET mid == (lo + hi + 1) \div 2
       IN IF mid * mid <= v THEN SqrtSearch(v, mid, hi)
          ELSE SqrtSearch(v, lo, mid - 1)

\* v ** .5 in fixed point: the largest r with r * r <= v.
Pow05(v) == SqrtSearch(v, 0, IF v < 46340 THEN v ELSE 46340)

\* The distance with the sum squared instead of the sum of the squares.
CalcDistanceSquaredSum(start, finish) ==
  LET diff_x == finish.x - start.x
      diff_y == finish.y - start.y
  IN Pow05((diff_x + diff_y) * (diff_x + diff_y) * Scale * Scale)

_calc_distance_between_points(start, finish) ==
  LET diff_x == finish.x - start.x
      diff_y == finish.y - start.y
  IN Pow05((diff_x * diff_x + diff_y * diff_y) * Scale * Scale)

\* The addresses of the points of a list.
AddressesOf(arr) == {arr[i].address : i \in 1..Len(arr)}

\* The point a dict keyed by address ends up with for a key: the last
\* point of the list with that address overwrites the earlier ones.
LastWith(arr, address) ==
  arr[CHOOSE i \in 1..Len(arr) :
        /\ arr[i].address = address
        /\ \A j \in (i + 1)..Len(arr) : arr[j].address # address]

_generate_row(start, finish_arr) ==
  [a \in AddressesOf(finish_arr) |->
     _calc_distance_between_points(start, LastWith(finish_arr, a))]

\* The value _generate_matrix stores in _all_distances.
_generate_matrix(start_arr, finish_arr) ==
  [a \in AddressesOf(start_arr) |->
     _generate_row(LastWith(start_arr, a), finish_arr)]

\* arr[i], arr[j] = arr[j], arr[i] on a 1-based sequence.
Swap(arr, i, j) ==
  IF i = j THEN arr
  ELSE LET lo == IF i < j THEN i ELSE j
           hi == IF i < j THEN j ELSE i
       IN SubSeq(arr, 1, lo - 1) \o <<arr[hi]>> \o
          SubSeq(arr, lo + 1, hi - 1) \o <<arr[lo]>> \o
          SubSeq(arr, hi + 1, Len(arr))

\* The round of the loop with an assignment in place of the exchange.
SwapRuleOverwrite(arr, len_arr, i) ==
  IF len_arr % 2 = 0 THEN [arr EXCEPT ![i + 1] = arr[len_arr]]
  ELSE [arr EXCEPT ![1] = arr[len_arr]]

\* The swap of one round of the loop of _permute (i is the 0-based index).
SwapRule(arr, len_arr, i) ==
  IF len_arr % 2 = 0 THEN Swap(arr, i + 1, len_arr)
  ELSE Swap(arr, 1, len_arr)

\* The path without the finish point.
TourOpen(arr, sa, fa) == <<sa>> \o arr

\* The path _permute appends for the arrangement arr.
Tour(arr, sa, fa) == <<sa>> \o arr \o <<fa>>

\* _permute(arr, len_arr) on the state st = [arr, paths]: arr is the list
\* permuted in place, paths the list the tours are appended to; sa and fa
\* are the addresses of the start and the finish point.  (The test on the
\* lengths in PermuteLoop is never true: it makes the recursive call be
\* evaluated before the next round starts, as in the program.)
RECURSIVE _permute(_, _, _, _), PermuteLoop(_, _, _, _, _)
_permute(st, len_arr, sa, fa) ==
  IF len_arr = 1
  THEN [arr |-> st.arr, paths |-> Append(st.paths, Tour(st.arr, sa, fa))]
  ELSE PermuteLoop(st, len_arr, 0, sa, fa)

PermuteLoop(st, len_arr, i, sa, fa) ==
  IF i >= len_arr THEN st
  ELSE LET s1 == _permute(st, len_arr - 1, sa, fa)
       IN IF Len(s1.arr) + Len(s1.paths) < 0 THEN s1
          ELSE PermuteLoop([arr |-> SwapRule(s1.arr, len_arr, i),
                            paths |-> s1.paths],
                           len_arr, i + 1, sa, fa)

\* The combinations with the last waypoint left in its place.
CreateCombinationsShort(row_route, paths, sa, fa) ==
  LET points_address == [i \in 1..Len(row_route) |-> row_route[i].address]
  IN _permute([arr |-> points_address, paths |-> paths],
              Len(points_address) - 1, sa, fa).paths

\* The value of paths after _create_all_combinations on a Route with the
\* waypoint list row_route, the candidate list paths and start and finish
\* point with the addresses sa and fa.
_create_all_combinations(row_route, paths, sa, fa) ==
  LET points_address == [i \in 1..Len(row_route) |-> row_route[i].address]
  IN _permute([arr |-> points_address, paths |-> paths],
              Len(points_address), sa, fa).paths

\* The inner loop of _calculate_minimal_route over the addresses of one
\* path from position k on: the pair of route_dist and start_point after it.
RECURSIVE ScorePath(_, _, _, _, _)
ScorePath(matrix, path, k, dist, sp) ==
  IF k > Len(path) THEN [route_dist |-> dist, start_point |-> sp]
  ELSE ScorePath(matrix, path, k + 1, dist + matrix[sp][path[k]], path[k])

\* The replacement on a tie as well.
ImprovesOrTies(best, dist) == best >= dist

\* Whether a candidate of length dist replaces the best so far.
Improves(best, dist) == best > dist

\* The body of the loop over the paths, on the local variables loc of
\* _calculate_minimal_route.
ScoreStep(matrix, path, loc) ==
  LET s == ScorePath(matrix, path, 1, 0, loc.start_point)
      better == Improves(loc.mininal_distance, s.route_dist)
  IN [mininal_distance |-> IF better THEN s.route_dist
                           ELSE loc.mininal_distance,
      minimal_path |-> IF better THEN path ELSE loc.minimal_path,
      start_point |-> s.start_point,
      route_dist |-> s.route_dist]

\* The loop over the paths at the positions lo..hi: the rounds of the
\* first half of the positions, then those of the second half.  (The test
\* on first is never true: it makes the first half be evaluated before the
\* second half starts.)
RECURSIVE ScoreAll(_, _, _, _, _)
ScoreAll(matrix, paths, lo, hi, loc) ==
  IF lo > hi THEN loc
  ELSE IF lo = hi THEN ScoreStep(matrix, paths[lo], loc)
  ELSE LET mid == (lo + hi) \div 2
           first == ScoreAll(matrix, paths, lo, mid, loc)
       IN IF first.mininal_distance < 0 THEN first
          ELSE ScoreAll(matrix, paths, mid + 1, hi, first)

\* _get_point_by_address of _calculate_minimal_route.
_get_point_by_address(row_route, address) ==
  IF \E i \in 1..Len(row_route) : row_route[i].address = address
  THEN row_route[CHOOSE i \in 1..Len(row_route) :
                   /\ row_route[i].address = address
                   /\ \A j \in 1..(i - 1) : row_route[j].address # address]
  ELSE None

Init ==
  /\ validated = None
  /\ route = None
  /\ _row_route = <<>>
  /\ _start_point = None
  /\ _finish_point = None
  /\ _all_distances = <<>>
  /\ _paths = <<>>
  /\ _display = None
  /\ pc = "new"
  /\ idx = 0
  /\ mininal_distance = inf
  /\ minimal_path = <<>>
  /\ start_point = ""
  /\ route_dist = 0
  /\ calls = 0
  /\ returned = <<>>

\* Postman.add_route as main calls it on the new Postman; main then calls
\* shortify.
add_route(new_route) ==
  /\ pc = "new"
  /\ validated' = new_route
  /\ route' = new_route
  /\ pc' = "shortify"
  /\ UNCHANGED <<_row_route, _start_point, _finish_point, _all_distances,
                 _paths, _display, idx, mininal_distance, minimal_path,
                 start_point, route_dist, calls, returned>>

\* Postman.handle up to its call of shortify: add_route(self.route).
handle ==
  /\ pc = "done"
  /\ calls < MaxCalls
  /\ Len(_row_route) + Len(route) - 1 <= MaxRowRoute
  /\ validated' = route
  /\ route' = route
  /\ pc' = "shortify"
  /\ UNCHANGED <<_row_route, _start_point, _finish_point, _all_distances,
                 _paths, _display, idx, mininal_distance, minimal_path,
                 start_point, route_dist, calls, returned>>

\* The value of _row_route after _set_preroute.
AppendPoints(row_route, data) ==
  row_route \o [i \in 1..(Len(data) - 1) |-> Point(data[i + 1])]

_set_preroute ==
  /\ pc = "shortify"
  /\ _start_point' = Point(validated[1])
  /\ _finish_point' = Point(validated[1])
  /\ _row_route' = AppendPoints(_row_route, validated)
  /\ pc' = "calculate"
  /\ UNCHANGED <<validated, route, _all_distances, _paths, _display, idx,
                 mininal_distance, minimal_path, start_point, route_dist,
                 calls, returned>>

\* _calculate_minimal_route up to its loop over the paths.
CalculateBegin ==
  /\ pc = "calculate"
  /\ LET points == <<_start_point>> \o _row_route \o <<_finish_point>>
     IN _all_distances' = _generate_matrix(points, points)
  /\ _paths' = _create_all_combinations(_row_route, _paths,
                                        _start_point.address,
                                        _finish_point.address)
  /\ mininal_distance' = inf
  /\ minimal_path' = <<>>
  /\ start_point' = _start_point.address
  /\ route_dist' = 0
  /\ idx' = 1
  /\ pc' = "scoring"
  /\ UNCHANGED <<validated, route, _row_route, _start_point, _finish_point,
                 _display, calls, returned>>

\* One round of the loop over the paths: the path at position idx is scored.
CalculateScore ==
  /\ pc = "scoring"
  /\ idx <= Len(_paths)
  /\ LET loc == ScoreStep(_all_distances, _paths[idx],
                          [mininal_distance |-> mininal_distance,
                           minimal_path |-> minimal_path,
                           start_point |-> start_point,
                           route_dist |-> route_dist])
     IN /\ start_point' = loc.start_point
        /\ route_dist' = loc.route_dist
        /\ mininal_distance' = loc.mininal_distance
        /\ minimal_path' = loc.minimal_path
  /\ idx' = idx + 1
  /\ UNCHANGED <<validated, route, _row_route, _start_point, _finish_point,
                 _all_distances, _paths, _display, pc, calls, returned>>

\* The points display walks over from position k on: the triples of x, y
\* and the distance walked so far, for the points that are not None.
RECURSIVE DisplayWalk(_, _, _, _, _)
DisplayWalk(points, k, previous, distance, out) ==
  IF k > Len(points) THEN out
  ELSE IF points[k] # None
       THEN LET d == distance +
                     _calc_distance_between_points(previous, points[k])
            IN DisplayWalk(points, k + 1, points[k], d,
                           Append(out, <<points[k].x, points[k].y, d>>))
       ELSE DisplayWalk(points, k + 1, previous, distance, out)

\* The fields of the string Route.display renders, in its order.
display(sp, disp) ==
  [start |-> <<sp.x, sp.y>>,
   stops |-> DisplayWalk(disp.points, 1, sp, 0, <<>>),
   finish |-> <<sp.x, sp.y, disp.minimal_distance>>,
   total |-> disp.minimal_distance]

\* The value _calculate_minimal_route stores in _display.
MinimalRoute(row_route, path, distance) ==
  [points |-> [k \in 1..Len(path) |->
                 _get_point_by_address(row_route, path[k])],
   minimal_distance |-> distance]

\* _calculate_minimal_route after the loop: the result is stored, shortify
\* returns and its caller (main or handle) returns the display.
CalculateEnd ==
  /\ pc = "scoring"
  /\ idx > Len(_paths)
  /\ _display' = MinimalRoute(_row_route, minimal_path, mininal_distance)
  /\ returned' = Append(returned, display(_start_point, _display'))
  /\ pc' = "done"
  /\ calls' = calls + 1
  /\ UNCHANGED <<validated, route, _row_route, _start_point, _finish_point,
                 _all_distances, _paths, idx, mininal_distance, minimal_path,
                 start_point, route_dist>>

\* main(data): a new Postman, add_route, shortify and display, as one
\* function of the input.  (The test before the display is always true: it
\* makes the matrix, the paths and the loop be evaluated in the order of
\* the program, before the display.)
main(data) ==
  LET sp == Point(data[1])
      row_route == AppendPoints(<<>>, data)
      points == <<sp>> \o row_route \o <<sp>>
      matrix == _generate_matrix(points, points)
      paths == _create_all_combinations(row_route, <<>>, sp.address,
                                        sp.address)
      loc == ScoreAll(matrix, paths, 1, Len(paths),
                      [mininal_distance |-> inf, minimal_path |-> <<>>,
                       start_point |-> sp.address, route_dist |-> 0])
  IN IF /\ sp.address \in DOMAIN matrix
        /\ Len(paths) >= 0
        /\ loc.mininal_distance >= 0
     THEN display(sp, MinimalRoute(row_route, loc.minimal_path,
                                   loc.mininal_distance))
     ELSE None

_calculate_minimal_route ==
  \/ CalculateBegin
  \/ CalculateScore
  \/ CalculateEnd

Next ==
  \/ \E new_route \in Inputs : add_route(new_route)
  \/ handle
  \/ _set_preroute
  \/ _calculate_minimal_route

Spec == Init /\ [][Next]_vars

(***************************************************************************)
(* Properties.                                                             *)
(***************************************************************************)

\* The one-to-one maps of 1..n onto itself.
Bijections(n) ==
  {f \in [1..n -> 1..n] : \A i, j \in 1..n : i # j => f[i] # f[j]}

\* The reorderings of a sequence.
Reorderings(s) ==
  {[i \in 1..Len(s) |-> s[f[i]]] : f \in Bijections(Len(s))}

RECURSIVE Fact(_)
Fact(n) == IF n <= 0 THEN 1 ELSE n * Fact(n - 1)

\* The sum of the distances between the consecutive rows of stops from
\* position k on.
RECURSIVE LegSum(_, _)
LegSum(stops, k) ==
  IF k >= Len(stops) THEN 0
  ELSE _calc_distance_between_points(Point(stops[k]), Point(stops[k + 1]))
       + LegSum(stops, k + 1)

\* The length of the closed tour depot -> q -> depot.
TourCost(depot, q) == LegSum(<<depot>> \o q \o <<depot>>, 1)

\* The sum of the matrix entries of the consecutive pairs of a path from
\* position k on.
RECURSIVE PairSum(_, _, _)
PairSum(matrix, path, k) ==
  IF k >= Len(path) THEN 0
  ELSE matrix[path[k]][path[k + 1]] + PairSum(matrix, path, k + 1)

\* The addresses of the waypoints of the input, in input order.
InputAddresses == [i \in 1..(Len(validated) - 1) |-> validated[i + 1][3]]

\* shortify has returned for the first time on this Route.
FirstDone == pc = "done" /\ calls = 1

\* C1: after one shortify on a new Route the total distance is at most the
\* length of the closed tour depot -> q -> depot for every permutation q of
\* the waypoints of the input.
C1_Optimality ==
  FirstDone =>
    \A q \in Reorderings(Tail(validated)) :
      _display.minimal_distance <= TourCost(validated[1], q)

\* The data of the self-test.
ScenarioData ==
  <<<<0, 2, "P">>, <<2, 5, "A">>, <<5, 2, "B">>, <<6, 6, "C">>,
    <<8, 3, "D">>>>

\* A fixed-point distance after k legs agrees with a distance of milli
\* thousandths (rounded down) up to the rounding of the k legs.
Within(cum, k, milli) ==
  /\ cum * 1000 <= (milli + 1) * Scale
  /\ (cum + k) * 1000 >= milli * Scale

\* C2: for the data of the self-test main returns the tour (0,2) -> (5,2)
\* -> (8,3) -> (6,6) -> (2,5) -> (0,2) with the cumulative distances 5.0,
\* 8.162..., 11.767..., 15.890..., 19.496... and the total 19.496..., not the
\* reversed tour of the same length.
C2_ConcreteScenario ==
  (FirstDone /\ validated = ScenarioData) =>
    LET r == returned[1]
    IN /\ minimal_path = <<"P", "B", "D", "C", "A", "P">>
       /\ r.start = <<0, 2>>
       /\ Len(r.stops) = 4
       /\ <<r.stops[1][1], r.stops[1][2]>> = <<5, 2>>
       /\ <<r.stops[2][1], r.stops[2][2]>> = <<8, 3>>
       /\ <<r.stops[3][1], r.stops[3][2]>> = <<6, 6>>
       /\ <<r.stops[4][1], r.stops[4][2]>> = <<2, 5>>
       /\ Within(r.stops[1][3], 1, 5000)
       /\ Within(r.stops[2][3], 2, 8162)
       /\ Within(r.stops[3][3], 3, 11767)
       /\ Within(r.stops[4][3], 4, 15890)
       /\ <<r.finish[1], r.finish[2]>> = <<0, 2>>
       /\ Within(r.finish[3], 5, 19496)
       /\ r.total = r.finish[3]

C2_Witness == FirstDone /\ validated = ScenarioData

\* C3: for an input of the depot alone, one shortify yields the tour
\* [depot, depot] with the total distance 0.
C3_Degenerate ==
  (FirstDone /\ Len(validated) = 1) =>
    /\ _display.minimal_distance = 0
    /\ minimal_path = <<validated[1][3], validated[1][3]>>

\* C4: for n waypoints, n in 0..4, the first shortify on a Route scores
\* exactly n! candidates, one for each permutation of the waypoint
\* addresses.
C4_Enumeration ==
  (/\ (pc = "scoring" /\ calls = 0) \/ FirstDone
   /\ Len(validated) - 1 <= 4) =>
    /\ Len(_paths) = Fact(Len(validated) - 1)
    /\ {_paths[i] : i \in 1..Len(_paths)} =
         {Tour(q, validated[1][3], validated[1][3]) :
            q \in Reorderings(InputAddresses)}

\* The positions of _paths scored so far.
Scored == 1..(idx - 1)

\* C5: the best candidate is replaced only by a strictly shorter one: the
\* selected tour is the earliest generated among the scored candidates of
\* the smallest length, and the first candidate generated has the
\* waypoints in input order.
C5_TieBreak ==
  (pc \in {"scoring", "done"} /\ idx > 1) =>
    LET cost == [j \in Scored |-> PairSum(_all_distances, _paths[j], 1)]
        least == CHOOSE c \in {cost[j] : j \in Scored} :
                   \A j \in Scored : c <= cost[j]
        first == CHOOSE j \in Scored :
                   cost[j] = least /\ \A k \in 1..(j - 1) : cost[k] # least
    IN /\ mininal_distance = least
       /\ minimal_path = _paths[first]
       /\ \A j \in Scored : _paths[j] = minimal_path => first <= j
       /\ _paths[1] = Tour(InputAddresses, validated[1][3], validated[1][3])

C5_Witness ==
  /\ FirstDone
  /\ Len(_paths) > 8
  /\ minimal_path = _paths[8]
  /\ \E j \in 9..Len(_paths) :
       /\ _paths[j] # minimal_path
       /\ PairSum(_all_distances, _paths[j], 1) = mininal_distance

\* C6: every display returned by a shortify on one Route equals the one
\* returned by the first.
C6_Determinism ==
  \A k \in 1..Len(returned) : returned[k] = returned[1]

\* C7: when shortify starts, the waypoint list and the candidate list hold
\* nothing of an earlier call.
C7_CallIsolation ==
  pc = "shortify" => (_row_route = <<>> /\ _paths = <<>>)

\* C8: for an input with at least one waypoint, the tour selected by the
\* first shortify on a Route begins and ends with the depot address and
\* holds every waypoint address exactly once in between.
C8_TourValidity ==
  (FirstDone /\ Len(validated) >= 2) =>
    LET n == Len(validated) - 1
    IN /\ Len(minimal_path) = n + 2
       /\ minimal_path[1] = validated[1][3]
       /\ minimal_path[n + 2] = validated[1][3]
       /\ \A w \in 2..(n + 1) :
            Cardinality({k \in 2..(n + 1) :
                           minimal_path[k] = validated[w][3]}) = 1
       /\ Len(_display.points) = n + 2
       /\ \A k \in 2..(n + 1) :
            _display.points[k].address = minimal_path[k]

C8_Witness == FirstDone /\ Len(validated) = 4

\* The rows of q in the order of their coordinates: the same sequence for
\* every order of the same rows.
Canonical(q) ==
  CHOOSE p \in Reorderings(q) :
    \A i, j \in 1..Len(p) :
      i < j => \/ p[i][1] < p[j][1]
               \/ (p[i][1] = p[j][1] /\ p[i][2] <= p[j][2])

\* C9: the total distance main returns for an input is the one it returns
\* for the same depot followed by the same waypoints in the order of their
\* coordinates; so any two inputs with the same depot and the same set of
\* waypoints, in whatever order, have the same total distance.
C9_PermutationInvariance ==
  FirstDone =>
    returned[1].total =
      main(<<validated[1]>> \o Canonical(Tail(validated))).total

C9_Witness ==
  /\ FirstDone
  /\ Len(validated) = 5
  /\ Tail(validated) # Canonical(Tail(validated))
  /\ returned[1].stops #
       main(<<validated[1]>> \o Canonical(Tail(validated))).stops
  /\ returned[1].total < inf

\* C10: whenever the scoring of a candidate begins, start_point is the
\* depot address, and the length computed for a candidate is the sum of
\* the matrix distances of the consecutive pairs of its path.
C10_TourScoring ==
  /\ pc = "scoring" => start_point = _start_point.address
  /\ (pc \in {"scoring", "done"} /\ idx > 1) =>
       /\ route_dist = PairSum(_all_distances, _paths[idx - 1], 1)
       /\ _paths[idx - 1][1] = _start_point.address
       /\ _paths[idx - 1][Len(_paths[idx - 1])] = _start_point.address

C10_Witness ==
  /\ pc = "scoring"
  /\ idx = 3
  /\ idx <= Len(_paths)
  /\ route_dist > 0
  /\ start_point = _start_point.address

====
